---- MODULE Spec2Model ----
(***************************************************************************)
(* Model of the MIST UI Tauri shell, ui/src-tauri/src/main.rs.             *)
(*                                                                         *)
(*   #![cfg_attr(not(debug_assertions), windows_subsystem = "windows")]    *)
(*   fn main() {                                                           *)
(*       tauri::Builder::default()                                         *)
(*           .run(tauri::generate_context!())                              *)
(*           .expect("error while running tauri application");             *)
(*   }                                                                     *)
(*                                                                         *)
(* The program is one thread of control: main evaluates the receiver       *)
(* (Builder::default()), then the argument (generate_context!()), then     *)
(* calls run, which blocks in the windowing event loop, and finally        *)
(* applies expect to run's Result.  The source registers no setup hook,    *)
(* no command and no event handler, and spawns no process: the shell       *)
(* holds no state besides what is modelled here.                           *)
(***************************************************************************)
EXTENDS Integers, Sequences, FiniteSets

\* Bound: events the event loop handles before the model stops counting.
MaxEvents == 2

\* Bound: distinct error values run() may hand back (opaque to main, which
\* only formats them with Debug).
MaxErrKinds == 2

\* Exit status of a process whose main returned.
ExitSuccess == 0

\* Exit status of a Rust process whose main thread panicked and unwound.
PanicExitCode == 101

\* Status of a process ended by abort() on a Unix target (128 + SIGABRT).
SigAbrtStatus == 134

\* Status of a process ended by abort() on Windows: the NTSTATUS 0xC0000409
\* read as a signed 32-bit integer (3221226505 - 2^32).
FastFailStatus == -1073740791

\* Build inputs: cfg(debug_assertions), the target OS, the panic strategy.
Profiles == {"debug", "release"}

Targets == {"windows", "linux", "macos"}

PanicStrategies == {"unwind", "abort"}

\* The message main passes to expect.
ExpectMsg == "error while running tauri application"

NoResult == [tag |-> "None", err |-> 0]

OkResult == [tag |-> "Ok", err |-> 0]

ErrResult(e) == [tag |-> "Err", err |-> e]

RunErrors == 1..MaxErrKinds

VARIABLES
    profile,        \* "debug" | "release": whether debug_assertions is set
    target,         \* target OS of the build
    panicStrategy,  \* "unwind" | "abort"
    pc,             \* position of main's single thread
    runCalls,       \* number of times Builder::run has been entered
    events,         \* events handled by the event loop so far
    result,         \* the Result returned by run()
    stderr,         \* messages that reached an attached console
    exitStatus      \* exit status of the process, once pc = "exited"

vars == <<profile, target, panicStrategy, pc, runCalls, events, result,
          stderr, exitStatus>>

build == <<profile, target, panicStrategy>>

\* Line 6: the attribute applies only when debug_assertions is off, and
\* windows_subsystem only has an effect on a Windows target.
Subsystem(p, t) ==
    IF p = "release" /\ t = "windows" THEN "windows" ELSE "console"

\* What expect's panic message is: the given text and the Debug of the error.
PanicMessage(e) == <<ExpectMsg, e>>

\* A panic message is written to stderr; a windows-subsystem process has no
\* console attached, so nothing is seen there.
WriteStderr(out, p, t, msg) ==
    IF Subsystem(p, t) = "console" THEN Append(out, msg) ELSE out

\* Status of the process after abort().
AbortStatus(t) == IF t = "windows" THEN FastFailStatus ELSE SigAbrtStatus

Init ==
    /\ profile \in Profiles
    /\ target \in Targets
    /\ panicStrategy \in PanicStrategies
    /\ pc = "main"
    /\ runCalls = 0
    /\ events = 0
    /\ result = NoResult
    /\ stderr = <<>>
    /\ exitStatus = ExitSuccess

\* tauri::Builder::default()
BuilderDefault ==
    /\ pc = "main"
    /\ pc' = "builder"
    /\ UNCHANGED <<build, runCalls, events, result, stderr, exitStatus>>

\* tauri::generate_context!(), the argument of run
GenerateContext ==
    /\ pc = "builder"
    /\ pc' = "context"
    /\ UNCHANGED <<build, runCalls, events, result, stderr, exitStatus>>

\* .run(context) is entered: the runtime is initialised and the loop starts.
RunEnter ==
    /\ pc = "context"
    /\ pc' = "run"
    /\ runCalls' = runCalls + 1
    /\ events' = 0
    /\ UNCHANGED <<build, result, stderr, exitStatus>>

\* The event loop handles one event; main stays blocked in run.
RunEvent ==
    /\ pc = "run"
    /\ events < MaxEvents
    /\ events' = events + 1
    /\ UNCHANGED <<build, pc, runCalls, result, stderr, exitStatus>>

\* run returns Err(e): the runtime could not be initialised or run.
RunErr ==
    /\ pc = "run"
    /\ \E e \in RunErrors : result' = ErrResult(e)
    /\ pc' = "expect"
    /\ UNCHANGED <<build, runCalls, events, stderr, exitStatus>>

\* run returns Ok(()): the application finished.
RunOk ==
    /\ pc = "run"
    /\ result' = OkResult
    /\ pc' = "expect"
    /\ UNCHANGED <<build, runCalls, events, stderr, exitStatus>>

\* The runtime ends the process itself when the event loop finishes
\* (run's result type is Result<()>, but the loop may exit the process with
\* status 0 instead of returning).
RunExits ==
    /\ pc = "run"
    /\ pc' = "exited"
    /\ exitStatus' = ExitSuccess
    /\ UNCHANGED <<build, runCalls, events, result, stderr>>

\* A main in which the Result is dropped instead of unwrapped (.ok(), let _ =).
ExpectSwallowsError ==
    /\ pc = "expect"
    /\ pc' = "returned"
    /\ UNCHANGED <<build, runCalls, events, result, stderr, exitStatus>>

\* .expect("error while running tauri application")
Expect ==
    /\ pc = "expect"
    /\ pc' = IF result.tag = "Ok" THEN "returned" ELSE "panicking"
    /\ UNCHANGED <<build, runCalls, events, result, stderr, exitStatus>>

\* main falls off its end: the process exits with status 0.
MainReturn ==
    /\ pc = "returned"
    /\ pc' = "exited"
    /\ exitStatus' = ExitSuccess
    /\ UNCHANGED <<build, runCalls, events, result, stderr>>

\* The panic raised by expect unwinds out of main: message, then status 101.
PanicUnwind ==
    /\ pc = "panicking"
    /\ panicStrategy = "unwind"
    /\ stderr' = WriteStderr(stderr, profile, target, PanicMessage(result.err))
    /\ exitStatus' = PanicExitCode
    /\ pc' = "exited"
    /\ UNCHANGED <<build, runCalls, events, result>>

\* The panic raised by expect aborts the process (panic = "abort").
PanicAbort ==
    /\ pc = "panicking"
    /\ panicStrategy = "abort"
    /\ stderr' = WriteStderr(stderr, profile, target, PanicMessage(result.err))
    /\ exitStatus' = AbortStatus(target)
    /\ pc' = "exited"
    /\ UNCHANGED <<build, runCalls, events, result>>

Next ==
    \/ BuilderDefault
    \/ GenerateContext
    \/ RunEnter
    \/ RunEvent
    \/ RunErr
    \/ RunOk
    \/ RunExits
    \/ Expect
    \/ MainReturn
    \/ PanicUnwind
    \/ PanicAbort

Spec == Init /\ [][Next]_vars

TypeOK ==
    /\ profile \in Profiles
    /\ target \in Targets
    /\ panicStrategy \in PanicStrategies
    /\ pc \in {"main", "builder", "context", "run", "expect", "returned",
               "panicking", "exited"}
    /\ runCalls \in 0..1
    /\ events \in 0..MaxEvents
    /\ result \in {NoResult, OkResult} \cup {ErrResult(e) : e \in RunErrors}
    /\ Len(stderr) <= 1
    /\ exitStatus \in {ExitSuccess, PanicExitCode, SigAbrtStatus, FastFailStatus}

(***************************************************************************)
(* C8: a failure of the windowing runtime is fatal.  Once run() has        *)
(* returned an error, main attempts no recovery: run is not entered a      *)
(* second time and control is only ever in expect, in the panic it raises, *)
(* or past the end of the process; and when the process has exited, its    *)
(* exit status is not zero.                                                *)
(***************************************************************************)
C8_RuntimeErrorIsFatal ==
    result.tag = "Err" =>
        /\ pc \in {"expect", "panicking", "exited"}
        /\ runCalls = 1
        /\ (pc = "exited" => exitStatus # ExitSuccess)

\* C8 witness: run() returned an error and the process has exited.
C8_Witness ==
    /\ result.tag = "Err"
    /\ pc = "exited"
    /\ exitStatus = PanicExitCode

====
